---- MODULE Spec2Model ----
(***************************************************************************)
(* Model of src/main.go: the balance scanner and native-coin sweeper.      *)
(*                                                                         *)
(* main() is modelled as a sequential process whose position is pc with    *)
(* the loop indexes ep (endpoint), key (private key) and ct (contract);    *)
(* every call to an external collaborator (ledger client, token contract,  *)
(* crypto) is one step whose outcome is chosen by the environment.  The    *)
(* signal goroutine of lines 108-112 is a second process (sigState).       *)
(*                                                                         *)
(* io holds the observable events of the most recent step (external calls, *)
(* log lines, console lines), so that "the program never does X" is an     *)
(* invariant over io.  connected, scanned and sendCalls are ghost counters *)
(* kept only for the properties.                                           *)
(*                                                                         *)
(* big.Int amounts are held as q * GasLimit + r with 0 <= r < GasLimit     *)
(* (records [q, r]) so that the product gasPrice * gasLimit stays exact    *)
(* without leaving the range of the checker's integers.                    *)
(***************************************************************************)
EXTENDS Integers, Sequences, FiniteSets, TLC

\* ------------------------------------------------------------------ bounds
MaxEndpoints == 2
MaxKeys == 2
MaxContracts == 2

\* ------------------------------------------------------- program constants
GasLimit == 21000
FallbackGasPrice == 110000 * 10000
NativeDecimals == 18

ZeroAddress == 0

\* ------------------------------------------------------------ big.Int (wei)
Wei(q, r) == [q |-> q, r |-> r]
ZeroWei == Wei(0, 0)

\* new(big.Int).Mul(gasPrice, gasLimit), gasLimit being big.NewInt(21000)
MulGasLimit(gasPrice) == Wei(gasPrice, 0)

\* new(big.Int).Sub(a, b)
Sub(a, b) ==
    IF a.r >= b.r
        THEN Wei(a.q - b.q, a.r - b.r)
        ELSE Wei(a.q - b.q - 1, a.r - b.r + GasLimit)

\* x.Cmp(&big.Int{}) : -1, 0 or 1
CmpZero(a) ==
    IF a.q < 0 THEN -1
    ELSE IF a.q = 0 /\ a.r = 0 THEN 0
    ELSE 1

\* ------------------------------------------------------------------ inputs
\* A text is a sequence of one-character strings.
\* Hex texts (after the 0x prefix) are sequences of digit values 0..15.
RECURSIVE HexValue(_)
HexValue(digits) ==
    IF digits = <<>> THEN 0
    ELSE 16 * HexValue(SubSeq(digits, 1, Len(digits) - 1)) + digits[Len(digits)]

\* common.HexToAddress: the big-endian value of the hex digits
HexToAddress(digits) == HexValue(digits)

\* strings.ContainsAny(str, chars)
ContainsAny_none(str, chars) == FALSE
ContainsAny(str, chars) == \E i \in 1..Len(str) : str[i] \in chars

\* strings.Replace(str, old, new, -1)
Replace(str, old, new) ==
    [i \in 1..Len(str) |-> IF str[i] = old THEN new ELSE str[i]]

\* strings.TrimSpace(str)
RECURSIVE TrimLeft(_)
TrimLeft(str) ==
    IF str # <<>> /\ Head(str) = " " THEN TrimLeft(Tail(str)) ELSE str

RECURSIVE TrimRight(_)
TrimRight(str) ==
    IF str # <<>> /\ str[Len(str)] = " "
        THEN TrimRight(SubSeq(str, 1, Len(str) - 1))
        ELSE str

TrimSpace(str) == TrimRight(TrimLeft(str))

\* for len(str)%4 != 0 { str += "=" }
RECURSIVE Pad(_)
Pad(str) == IF Len(str) % 4 # 0 THEN Pad(Append(str, "=")) ELSE str

\* lines 128-133: the text handed to the decoder
Normalise(str) == Pad(TrimSpace(Replace(Replace(str, "-", "+"), "_", "/")))

\* The standard base64 alphabet, restricted to the characters of the inputs.
Sextet(c) ==
    CASE c = "A" -> 0
      [] c = "B" -> 1
      [] c = "+" -> 62
      [] c = "/" -> 63
      [] OTHER -> -1

IsData(c) == Sextet(c) >= 0

\* One quantum of four characters; last tells whether padding is allowed.
QuantumOK(q, last) ==
    /\ IsData(q[1])
    /\ IsData(q[2])
    /\ \/ IsData(q[3]) /\ IsData(q[4])
       \/ last /\ IsData(q[3]) /\ q[4] = "="
       \/ last /\ q[3] = "=" /\ q[4] = "="

QuantumBytes(q) ==
    LET a == Sextet(q[1])
        b == Sextet(q[2])
        c == IF IsData(q[3]) THEN Sextet(q[3]) ELSE 0
        d == IF IsData(q[4]) THEN Sextet(q[4]) ELSE 0
        v == a * 262144 + b * 4096 + c * 64 + d
        all == <<v \div 65536, (v \div 256) % 256, v % 256>>
    IN  IF q[3] = "=" THEN SubSeq(all, 1, 1)
        ELSE IF q[4] = "=" THEN SubSeq(all, 1, 2)
        ELSE all

RECURSIVE DecodeQuanta(_)
DecodeQuanta(str) ==
    IF str = <<>> THEN [ok |-> TRUE, bytes |-> <<>>]
    ELSE LET q == SubSeq(str, 1, 4)
             rest == SubSeq(str, 5, Len(str))
         IN  IF ~QuantumOK(q, rest = <<>>)
                 THEN [ok |-> FALSE, bytes |-> <<>>]
                 ELSE LET r == DecodeQuanta(rest)
                      IN  [ok |-> r.ok, bytes |-> QuantumBytes(q) \o r.bytes]

\* base64.StdEncoding.DecodeString(str)
DecodeString(str) ==
    IF Len(str) % 4 # 0
        THEN [ok |-> FALSE, bytes |-> <<>>]
        ELSE DecodeQuanta(str)

RECURSIVE BytesValue(_)
BytesValue(bytes) ==
    IF bytes = <<>> THEN 0
    ELSE 256 * BytesValue(SubSeq(bytes, 1, Len(bytes) - 1)) + bytes[Len(bytes)]

\* crypto.ToECDSA(pkey): the scalar must have the curve's byte length and lie in
\* 1..N-1.  The curve is scaled down to two-byte scalars with N = 65521.
ToECDSA(bytes) ==
    [ok |-> Len(bytes) = 2 /\ BytesValue(bytes) > 0 /\ BytesValue(bytes) < 65521,
     key |-> BytesValue(bytes)]

\* crypto.PubkeyToAddress(key.PublicKey): injective in the key, never zero
PubkeyToAddress(k) == 2 * k + 1

\* The private-key texts the environment may supply.
KeyTexts ==
    { <<"A", "B", "A">>,           \* well-formed, needs one pad
      <<" ", "A", "_", "-">>,      \* well-formed, URL-safe characters, blanks
      <<"A", "+", "A">>,           \* standard alphabet: '+'
      <<"A", "/", "A">>,           \* standard alphabet: '/'
      <<"A", "!", "A">>,           \* not base64
      <<"A">>,                     \* one character: no quantum
      <<"A", "A", "B">>,           \* decodes to the zero scalar
      <<"_", "_", "-">> }          \* decodes to a scalar >= N

\* The sweep destination texts: unset, "0x0", "0xde".
SwipeTexts == { <<>>, <<0>>, <<13, 14>> }

SeqsUpTo(S, n) == UNION { [1..m -> S] : m \in 0..n }

Urls(n) == [i \in 1..n |-> i]
ContractTexts(n) == [i \in 1..n |-> <<i>>]

OptsInputs ==
    [ RPCURLs : { Urls(n) : n \in 0..MaxEndpoints },
      ContractAddresses : { ContractTexts(n) : n \in 0..MaxContracts },
      PrivateKeys : SeqsUpTo(KeyTexts, MaxKeys),
      SwipeAddress : SwipeTexts ]

\* What the ledger and the token contracts may answer.
NativeBalances == { ZeroWei, Wei(0, 100), Wei(2, 0), Wei(3, 0), Wei(FallbackGasPrice, 1) }
TokenBalances == { 0, 1500 }
GasPrices == { 0, 2 }
Nonces == { 0, 3 }
DecimalsValues == { 0, 18 }
NetworkIdOf(url) == 10 * url

\* ------------------------------------------------------------------- state
VARIABLES
    opts,               \* the parsed options (lines 25-30)
    contractAddresses,  \* line 116
    privateKeys,        \* line 121
    swipeTo,            \* line 144
    pc, ep, key, ct,    \* position of main: statement and loop indexes
    err,                \* the error of the last call: "nil" or the call's name
    networkId,          \* line 155
    tokenBal,           \* line 168
    decimals, name,     \* getERC20Info's _decimals and name
    bal,                \* line 183
    nonce, gasPrice,    \* SwipeTo, lines 85 and 88
    signedTx,           \* SwipeTo, line 96
    sigState,           \* the signal goroutine: listening, received, cancelled
    io,                 \* events of the last step
    connected,          \* ghost: endpoints dialled successfully
    scanned,            \* ghost: (endpoint, key) iterations completed
    sendCalls           \* ghost: SendTransaction calls in the current iteration

vars == <<opts, contractAddresses, privateKeys, swipeTo, pc, ep, key, ct, err,
          networkId, tokenBal, decimals, name, bal, nonce, gasPrice, signedTx,
          sigState, io, connected, scanned, sendCalls>>

config == <<opts>>
parsed == <<contractAddresses, privateKeys, swipeTo>>
tokenLocals == <<tokenBal, decimals, name>>
swipeLocals == <<nonce, gasPrice, signedTx>>

NoTx == [nonce |-> 0, to |-> ZeroAddress, value |-> ZeroWei, gasLimit |-> 0,
         gasPrice |-> 0, data |-> <<>>, chainId |-> 0, from |-> ZeroAddress]

Init ==
    /\ opts \in OptsInputs
    /\ contractAddresses = <<>>
    /\ privateKeys = <<>>
    /\ swipeTo = ZeroAddress
    /\ pc = "Parse" /\ ep = 0 /\ key = 0 /\ ct = 0
    /\ err = "nil"
    /\ networkId = 0
    /\ tokenBal = 0 /\ decimals = 0 /\ name = ""
    /\ bal = ZeroWei
    /\ nonce = 0 /\ gasPrice = 0 /\ signedTx = NoTx
    /\ sigState = "listening"
    /\ io = <<>>
    /\ connected = 0 /\ scanned = 0 /\ sendCalls = 0


\* ------------------------------------------------------------------ events
Call(op, ok, arg) == [kind |-> "call", op |-> op, ok |-> ok, arg |-> arg]

\* A call made through the client c of the endpoint url, with the value it returned.
CallOn(url, op, ok, arg, res) ==
    [kind |-> "call", op |-> op, ok |-> ok, arg |-> arg, url |-> url, res |-> res]
Log(op, arg) == [kind |-> "log", op |-> op, ok |-> TRUE, arg |-> arg]
Out(op, arg) == [kind |-> "stdout", op |-> op, ok |-> TRUE, arg |-> arg]

\* --------------------------------------------------------------- positions
Pos(p, e, k, c) == [pc |-> p, ep |-> e, key |-> k, ct |-> c]

PanicPos == Pos("panicked", ep, key, ct)

\* for _, rpcUrl := range opts.RPCURLs (line 149), after endpoint e
NextEndpointPos(e) ==
    IF e < Len(opts.RPCURLs) THEN Pos("Dial", e + 1, 0, 0) ELSE Pos("done", e, 0, 0)

\* the body of the key loop starts with the contract loop (lines 160-162)
KeyPos_native(e, k) == Pos("BalanceAt", e, k, 0)
KeyPos(e, k) ==
    IF Len(contractAddresses) > 0
        THEN Pos("NewERC20Caller", e, k, 1)
        ELSE Pos("BalanceAt", e, k, 0)

\* for _, key := range privateKeys (line 160), after key k
NextKeyPos_stay(e, k) == IF k = 0 THEN KeyPos(e, 1) ELSE KeyPos(e, k)
NextKeyPos(e, k) ==
    IF k < Len(privateKeys) THEN KeyPos(e, k + 1) ELSE NextEndpointPos(e)

\* for _, contractAddr := range contractAddresses (line 162), after contract c
NextContractPos_skip(e, k, c) ==
    IF c + 1 < Len(contractAddresses)
        THEN Pos("NewERC20Caller", e, k, c + 2)
        ELSE Pos("BalanceAt", e, k, 0)
NextContractPos(e, k, c) ==
    IF c < Len(contractAddresses)
        THEN Pos("NewERC20Caller", e, k, c + 1)
        ELSE Pos("BalanceAt", e, k, 0)

\* for _, privateKey := range opts.PrivateKeys (line 122), after key k
NextDecodePos(k) ==
    IF k < Len(opts.PrivateKeys)
        THEN Pos("DecodeKey", 0, k + 1, 0)
        ELSE Pos("SwipeAddress", 0, 0, 0)

\* func check(err error): TRUE when it panics
check_ignore(e) == FALSE
check(e) == e # "nil"

\* check(err) followed by the rest of the function
Checked(e, cont) == IF check(e) THEN PanicPos ELSE cont

\* Move main to position p; sent is the number of SendTransaction calls of the step.
Goto(p, sent) ==
    /\ pc' = p.pc /\ ep' = p.ep /\ key' = p.key /\ ct' = p.ct
    /\ scanned' = IF /\ ep > 0 /\ key > 0
                     /\ p.pc # "panicked"
                     /\ <<p.ep, p.key>> # <<ep, key>>
                  THEN scanned + 1 ELSE scanned
    /\ sendCalls' = IF p.key > 0 /\ <<p.ep, p.key>> # <<ep, key>>
                    THEN 0 ELSE sendCalls + sent

Alive == pc \notin {"done", "panicked", "exited"}
Cancelled == sigState = "cancelled"

\* Outcomes of a call that takes ctx: it fails once ctx is cancelled.
CtxOutcomes == IF Cancelled THEN {FALSE} ELSE BOOLEAN

Failure(ok, op) == IF ok THEN "nil" ELSE op

\* ------------------------------------------------------- main: configuration
\* lines 113-114: flags.Parse; RPCURLs and PrivateKeys are required
ParseFlags ==
    /\ pc = "Parse"
    /\ LET missing == opts.RPCURLs = <<>> \/ opts.PrivateKeys = <<>>
           e == Failure(~missing, "flags.Parse")
       IN  /\ err' = e
           /\ Goto(Checked(e, Pos("Contracts", 0, 0, 0)), 0)
    /\ io' = <<>>
    /\ UNCHANGED <<config, parsed, networkId, tokenLocals, bal, swipeLocals,
                   sigState, connected>>

\* lines 116-119
ConvertContracts ==
    /\ pc = "Contracts"
    /\ contractAddresses' =
           [i \in 1..Len(opts.ContractAddresses) |->
               HexToAddress(opts.ContractAddresses[i])]
    /\ Goto(NextDecodePos(0), 0)
    /\ io' = <<>>
    /\ UNCHANGED <<config, privateKeys, swipeTo, err, networkId, tokenLocals, bal,
                   swipeLocals, sigState, connected>>

\* lines 122-142: one iteration of the key loop
DecodeKey ==
    /\ pc = "DecodeKey"
    /\ LET privateKey == opts.PrivateKeys[key]
           bad == ContainsAny(privateKey, {"+", "/"})
           dec == DecodeString(Normalise(privateKey))
           ec == ToECDSA(dec.bytes)
           e1 == Failure(dec.ok, "DecodeString")
           e2 == IF check(e1) THEN e1 ELSE Failure(ec.ok, "ToECDSA")
           p == IF bad THEN PanicPos
                ELSE Checked(e1, Checked(e2, NextDecodePos(key)))
       IN  /\ err' = IF bad THEN err ELSE e2
           /\ io' = IF bad \/ ~dec.ok
                        THEN <<Log("Println", "Bad private key")>>
                        ELSE <<>>
           /\ privateKeys' = IF p.pc = "panicked" THEN privateKeys
                             ELSE Append(privateKeys, ec.key)
           /\ Goto(p, 0)
    /\ UNCHANGED <<config, contractAddresses, swipeTo, networkId, tokenLocals, bal,
                   swipeLocals, sigState, connected>>

\* lines 144-148
SetSwipeTo ==
    /\ pc = "SwipeAddress"
    /\ IF opts.SwipeAddress # <<>>
           THEN /\ swipeTo' = HexToAddress(opts.SwipeAddress)
                /\ io' = <<Log("Printf", "Swipping all account to")>>
           ELSE /\ swipeTo' = swipeTo
                /\ io' = <<>>
    /\ Goto(NextEndpointPos(0), 0)
    /\ UNCHANGED <<config, contractAddresses, privateKeys, err, networkId,
                   tokenLocals, bal, swipeLocals, sigState, connected>>


\* ------------------------------------------------------------ main: the scan
ResetToken == tokenBal' = 0 /\ decimals' = 0 /\ name' = ""
ResetSwipe == nonce' = 0 /\ gasPrice' = 0 /\ signedTx' = NoTx

\* func getERC20Info with erc20 == nil (lines 52-54)
NativeInfo == [name |-> "Ether", symbol |-> "ETH", decimals |-> NativeDecimals]

\* lines 151-154: a failed Dial is logged and the endpoint skipped
OnDialError_check(e) == PanicPos
OnDialError(e) == NextEndpointPos(e)

\* lines 164-167: a failed NewERC20Caller is logged and the contract skipped
OnBindError(e, k, c) == NextContractPos(e, k, c)

\* lines 169-171: a failed BalanceOf skips the contract
OnBalanceOfError(e, k, c) == NextContractPos(e, k, c)

\* lines 172-174: a zero token balance skips the contract
HoldsToken_always(b) == TRUE
HoldsToken(b) == b # 0

\* getERC20Info, lines 56-57: check(err) after Decimals, then Name
AfterDecimals_guess(e) == Pos("Name", ep, key, ct)
AfterDecimals(e) == Checked(e, Pos("Name", ep, key, ct))

\* getERC20Info, lines 59-62: the name, or its sentinel when the call failed
NameOrSentinel(ok, v) == IF ok THEN v ELSE "Non ERC20 strict"

\* getERC20Info, lines 64-67: the symbol, or its sentinel when the call failed
SymbolOrSentinel_name(ok, v) == IF ok THEN v ELSE "Non ERC20 strict"
SymbolOrSentinel(ok, v) == IF ok THEN v ELSE "ERC20"

\* SwipeTo, line 93: var data []byte
TxData_call == <<"transfer">>
TxData == <<>>

\* SwipeTo, line 96: types.NewEIP155Signer(networkId)
SignerChainId_first(id) == NetworkIdOf(opts.RPCURLs[1])
SignerChainId(id) == id

\* line 186: bal.Cmp(&big.Int{}) != 0
NonZero_always(b) == TRUE
NonZero(b) == CmpZero(b) # 0

\* line 188: swipeTo != *new(common.Address)
SwipeRequested_always(to) == TRUE
SwipeRequested(to) == to # ZeroAddress

\* lines 90-92: the fallback fee rate
EffectiveGasPrice_asis(g) == g
EffectiveGasPrice(g) == IF g = 0 THEN FallbackGasPrice ELSE g

\* lines 98-101: after SendTransaction returned sendErr
AfterSend_retry(sendErr) ==
    IF sendErr # "nil" THEN Pos("SendTransaction", ep, key, ct) ELSE NextKeyPos(ep, key)
AfterSend(sendErr) == Checked(sendErr, NextKeyPos(ep, key))

\* lines 150-154
Dial ==
    /\ pc = "Dial"
    /\ \E ok \in BOOLEAN :
         /\ err' = Failure(ok, "Dial")
         /\ IF ok
                THEN /\ Goto(Pos("NetworkID", ep, 0, 0), 0)
                     /\ io' = <<Call("Dial", TRUE, opts.RPCURLs[ep])>>
                     /\ connected' = connected + 1
                ELSE /\ Goto(OnDialError(ep), 0)
                     /\ io' = <<Call("Dial", FALSE, opts.RPCURLs[ep]),
                                Log("Println", "Dial")>>
                     /\ connected' = connected
    /\ networkId' = 0
    /\ UNCHANGED <<config, parsed, tokenLocals, bal, swipeLocals, sigState>>

\* lines 155-158
NetworkID ==
    /\ pc = "NetworkID"
    /\ \E ok \in CtxOutcomes :
         LET e == Failure(ok, "NetworkID")
             p == Checked(e, NextKeyPos(ep, 0))
         IN  /\ err' = e
             /\ networkId' = IF ok THEN NetworkIdOf(opts.RPCURLs[ep]) ELSE 0
             /\ io' = <<CallOn(opts.RPCURLs[ep], "NetworkID", ok, opts.RPCURLs[ep],
                               IF ok THEN NetworkIdOf(opts.RPCURLs[ep]) ELSE 0)>>
                      \o (IF p.pc = "panicked" THEN <<>>
                          ELSE <<Log("Printf", "Connected to")>>)
             /\ Goto(p, 0)
    /\ UNCHANGED <<config, parsed, tokenLocals, bal, swipeLocals, sigState,
                   connected>>

\* lines 163-167
NewERC20Caller ==
    /\ pc = "NewERC20Caller"
    /\ \E ok \in BOOLEAN :
         /\ err' = Failure(ok, "NewERC20Caller")
         /\ IF ok
                THEN /\ Goto(Pos("BalanceOf", ep, key, ct), 0)
                     /\ io' = <<Call("NewERC20Caller", TRUE, contractAddresses[ct])>>
                ELSE /\ Goto(OnBindError(ep, key, ct), 0)
                     /\ io' = <<Call("NewERC20Caller", FALSE, contractAddresses[ct]),
                                Log("Println", "NewERC20Caller")>>
    /\ UNCHANGED <<config, parsed, networkId, tokenLocals, bal, swipeLocals,
                   sigState, connected>>

\* lines 168-174
BalanceOf ==
    /\ pc = "BalanceOf"
    /\ \E ok \in BOOLEAN : \E b \in TokenBalances :
         /\ ok \/ b = 0
         /\ err' = Failure(ok, "BalanceOf")
         /\ io' = <<CallOn(opts.RPCURLs[ep], "BalanceOf", ok,
                           [contract |-> contractAddresses[ct],
                            from |-> PubkeyToAddress(privateKeys[key])], b)>>
         /\ IF ~ok THEN Goto(OnBalanceOfError(ep, key, ct), 0) /\ tokenBal' = 0
            ELSE IF ~HoldsToken(b)
                THEN Goto(NextContractPos(ep, key, ct), 0) /\ tokenBal' = 0
            ELSE Goto(Pos("Decimals", ep, key, ct), 0) /\ tokenBal' = b
    /\ UNCHANGED <<config, parsed, networkId, decimals, name, bal, swipeLocals,
                   sigState, connected>>

\* getERC20Info, lines 56-57
Decimals ==
    /\ pc = "Decimals"
    /\ \E ok \in BOOLEAN : \E d \in DecimalsValues :
         /\ ok \/ d = 0
         /\ LET e == Failure(ok, "Decimals")
            IN  /\ err' = e
                /\ Goto(AfterDecimals(e), 0)
         /\ decimals' = d
         /\ io' = <<CallOn(opts.RPCURLs[ep], "Decimals", ok, contractAddresses[ct], d)>>
    /\ UNCHANGED <<config, parsed, networkId, tokenBal, name, bal, swipeLocals,
                   sigState, connected>>

\* getERC20Info, lines 59-62
Name ==
    /\ pc = "Name"
    /\ \E ok \in BOOLEAN :
         /\ err' = Failure(ok, "Name")
         /\ name' = NameOrSentinel(ok, "Token")
         /\ io' = <<Call("Name", ok, contractAddresses[ct])>>
    /\ Goto(Pos("Symbol", ep, key, ct), 0)
    /\ UNCHANGED <<config, parsed, networkId, tokenBal, decimals, bal, swipeLocals,
                   sigState, connected>>

\* getERC20Info, lines 64-70, then lines 176-177 of main
Symbol ==
    /\ pc = "Symbol"
    /\ \E ok \in BOOLEAN :
         LET symbol == SymbolOrSentinel(ok, "TKN")
         IN  /\ err' = Failure(ok, "Symbol")
             /\ io' = <<Call("Symbol", ok, contractAddresses[ct]),
                        Out("Printf", [name |-> name,
                                       contract |-> contractAddresses[ct]]),
                        Out("printAccount",
                            [from |-> PubkeyToAddress(privateKeys[key]),
                             unit |-> symbol, dec |-> decimals,
                             balance |-> tokenBal])>>
    /\ Goto(NextContractPos(ep, key, ct), 0)
    /\ ResetToken
    /\ UNCHANGED <<config, parsed, networkId, bal, swipeLocals, sigState,
                   connected>>

\* lines 183-191, up to the call of SwipeTo
BalanceAt ==
    /\ pc = "BalanceAt"
    /\ \E ok \in CtxOutcomes : \E b \in NativeBalances :
         /\ ok \/ b = ZeroWei
         /\ LET e == Failure(ok, "BalanceAt")
                from == PubkeyToAddress(privateKeys[key])
                swipe == NonZero(b) /\ SwipeRequested(swipeTo)
                p == Checked(e, IF swipe THEN Pos("NonceAt", ep, key, 0)
                                ELSE NextKeyPos(ep, key))
            IN  /\ err' = e
                /\ io' = <<CallOn(opts.RPCURLs[ep], "BalanceAt", ok, from, b)>>
                         \o (IF p.pc # "panicked" /\ NonZero(b)
                             THEN <<Out("printAccount",
                                        [from |-> from, unit |-> NativeInfo.symbol,
                                         dec |-> NativeInfo.decimals,
                                         balance |-> b])>>
                             ELSE <<>>)
                /\ bal' = IF p.pc = "NonceAt" THEN b ELSE ZeroWei
                /\ Goto(p, 0)
    /\ UNCHANGED <<config, parsed, networkId, tokenLocals, swipeLocals, sigState,
                   connected>>

\* SwipeTo, lines 84-86
NonceAt ==
    /\ pc = "NonceAt"
    /\ \E ok \in CtxOutcomes : \E n \in Nonces :
         /\ ok \/ n = 0
         /\ LET e == Failure(ok, "NonceAt")
            IN  /\ err' = e
                /\ Goto(Checked(e, Pos("SuggestGasPrice", ep, key, 0)), 0)
         /\ nonce' = n
         /\ io' = <<CallOn(opts.RPCURLs[ep], "NonceAt", ok,
                           PubkeyToAddress(privateKeys[key]), n)>>
    /\ UNCHANGED <<config, parsed, networkId, tokenLocals, bal, gasPrice, signedTx,
                   sigState, connected>>

\* SwipeTo, lines 87-89
SuggestGasPrice ==
    /\ pc = "SuggestGasPrice"
    /\ \E ok \in CtxOutcomes : \E g \in GasPrices :
         /\ ok \/ g = 0
         /\ LET e == Failure(ok, "SuggestGasPrice")
            IN  /\ err' = e
                /\ Goto(Checked(e, Pos("SignTx", ep, key, 0)), 0)
         /\ gasPrice' = g
         /\ io' = <<CallOn(opts.RPCURLs[ep], "SuggestGasPrice", ok,
                           opts.RPCURLs[ep], g)>>
    /\ UNCHANGED <<config, parsed, networkId, tokenLocals, bal, nonce, signedTx,
                   sigState, connected>>

\* SwipeTo, lines 90-97: fallback fee rate, amount, transaction, signature
SignTx ==
    /\ pc = "SignTx"
    /\ \E ok \in BOOLEAN :
         LET price == EffectiveGasPrice(gasPrice)
             newValue == Sub(bal, MulGasLimit(price))
             tx == [nonce |-> nonce, to |-> swipeTo, value |-> newValue,
                    gasLimit |-> GasLimit, gasPrice |-> price, data |-> TxData,
                    chainId |-> SignerChainId(networkId),
                    from |-> PubkeyToAddress(privateKeys[key])]
             e == Failure(ok, "SignTx")
         IN  /\ err' = e
             /\ gasPrice' = price
             /\ signedTx' = tx
             /\ io' = <<Call("SignTx", ok, tx)>>
             /\ Goto(Checked(e, Pos("SendTransaction", ep, key, 0)), 0)
    /\ UNCHANGED <<config, parsed, networkId, tokenLocals, bal, nonce, sigState,
                   connected>>

\* SwipeTo, lines 98-101
SendTransaction ==
    /\ pc = "SendTransaction"
    /\ \E ok \in CtxOutcomes :
         LET e == Failure(ok, "SendTransaction")
             p == AfterSend(e)
             left == p.pc \notin {"panicked", "SendTransaction"}
         IN  /\ err' = e
             /\ io' = <<Call("SendTransaction", ok,
                             [url |-> opts.RPCURLs[ep], tx |-> signedTx,
                              value |-> bal])>>
                      \o (IF left THEN <<Log("Printf", "Swipping amount")>>
                          ELSE <<>>)
             /\ bal' = IF left THEN ZeroWei ELSE bal
             /\ IF left THEN ResetSwipe ELSE UNCHANGED swipeLocals
             /\ Goto(p, 1)
    /\ UNCHANGED <<config, parsed, networkId, tokenLocals, sigState, connected>>

\* ------------------------------------------------------ the signal goroutine
\* An interrupt or termination signal reaches the channel (lines 104-105, 109).
Signal ==
    /\ Alive
    /\ sigState = "listening"
    /\ sigState' = "received"
    /\ io' = <<>>
    /\ UNCHANGED <<config, parsed, pc, ep, key, ct, err, networkId, tokenLocals,
                   bal, swipeLocals, connected, scanned, sendCalls>>

\* line 110: cancelFunc()
Cancel_skip ==
    /\ Alive
    /\ sigState = "received"
    /\ pc' = "exited"
    /\ io' = <<Log("Fatal", "Exit")>>
    /\ UNCHANGED <<config, parsed, ep, key, ct, err, networkId, tokenLocals, bal,
                   swipeLocals, sigState, connected, scanned, sendCalls>>
Cancel ==
    /\ Alive
    /\ sigState = "received"
    /\ sigState' = "cancelled"
    /\ io' = <<>>
    /\ UNCHANGED <<config, parsed, pc, ep, key, ct, err, networkId, tokenLocals,
                   bal, swipeLocals, connected, scanned, sendCalls>>

\* line 111: log.Fatal("Exit") ends the process
Exit ==
    /\ Alive
    /\ sigState = "cancelled"
    /\ pc' = "exited"
    /\ io' = <<Log("Fatal", "Exit")>>
    /\ UNCHANGED <<config, parsed, ep, key, ct, err, networkId, tokenLocals, bal,
                   swipeLocals, sigState, connected, scanned, sendCalls>>

Next ==
    \/ ParseFlags
    \/ ConvertContracts
    \/ DecodeKey
    \/ SetSwipeTo
    \/ Dial
    \/ NetworkID
    \/ NewERC20Caller
    \/ BalanceOf
    \/ Decimals
    \/ Name
    \/ Symbol
    \/ BalanceAt
    \/ NonceAt
    \/ SuggestGasPrice
    \/ SignTx
    \/ SendTransaction
    \/ Signal
    \/ Cancel
    \/ Exit

Spec == Init /\ [][Next]_vars


\* ================================================================ properties
FailedCalls(ops) ==
    { i \in DOMAIN io : io[i].kind = "call" /\ io[i].op \in ops /\ ~io[i].ok }

Sends == { i \in DOMAIN io : io[i].kind = "call" /\ io[i].op = "SendTransaction" }

Logged == \E j \in DOMAIN io : io[j].kind = "log"

SwipeToPcs == {"NonceAt", "SuggestGasPrice", "SignTx", "SendTransaction"}

\* C1: every SendTransaction call carries an amount > 0; a sweep whose balance does
\* not exceed the fee is skipped.
C1_NoNonPositiveTransfer ==
    \A i \in Sends : CmpZero(io[i].arg.tx.value) > 0

\* C2: SwipeTo runs, and SendTransaction is called, only when a sweep destination is
\* configured, resolves to a non-zero address, and the native balance is > 0.
C2_SendOnlyWhenRequested ==
    /\ pc \in SwipeToPcs =>
          /\ opts.SwipeAddress # <<>>
          /\ swipeTo # ZeroAddress
          /\ CmpZero(bal) > 0
    /\ \A i \in Sends :
          /\ opts.SwipeAddress # <<>>
          /\ io[i].arg.tx.to # ZeroAddress
          /\ io[i].arg.tx.to = swipeTo
          /\ CmpZero(io[i].arg.value) > 0

C2_Witness ==
    \E i \in Sends : io[i].ok /\ io[i].arg.tx.to = 222

\* C3: a failed Dial is logged and main moves to the next endpoint (or returns after
\* the last one) instead of aborting; when main returns, every endpoint whose Dial
\* succeeded has had all of its keys scanned.
C3_DialFailureSkipsEndpoint ==
    /\ \A i \in FailedCalls({"Dial"}) :
          /\ Logged
          /\ \/ pc = "Dial" /\ ep = io[i].arg + 1 /\ io[i].arg < Len(opts.RPCURLs)
             \/ pc = "done" /\ io[i].arg = Len(opts.RPCURLs)
    /\ pc = "done" => scanned = connected * Len(privateKeys)

C3_Witness ==
    /\ pc = "done"
    /\ FailedCalls({"Dial"}) # {}
    /\ connected >= 1
    /\ scanned = connected * Len(privateKeys)
    /\ Len(privateKeys) > 1

\* C4: a failed per-token call (bind, balanceOf, decimals, name, symbol) leaves main
\* scanning the same address: it never aborts the process.
C4_TokenFailureOnlySkips ==
    \A i \in FailedCalls({"NewERC20Caller", "BalanceOf", "Decimals", "Name", "Symbol"}) :
        pc \in {"NewERC20Caller", "BalanceOf", "Name", "Symbol", "BalanceAt"}

\* C5: a failed BalanceAt, SignTx or SendTransaction aborts the process at that
\* point: main panics in the same step, prints nothing in it, and no further step
\* of the program exists.
C5_FatalErrorsAbort ==
    \A i \in FailedCalls({"BalanceAt", "SignTx", "SendTransaction"}) :
        /\ pc = "panicked"
        /\ err = io[i].op
        /\ \A j \in DOMAIN io : io[j].kind = "call"
        /\ ~ENABLED Next

C5_Witness ==
    /\ FailedCalls({"BalanceAt"}) # {}
    /\ pc = "panicked"
    /\ key < Len(privateKeys)
    /\ ep < Len(opts.RPCURLs)

\* C6 as stated: after a failed SendTransaction the iteration continues with the
\* next key or endpoint.
C6_SendFailureContinues ==
    \A i \in FailedCalls({"SendTransaction"}) :
        pc \in {"NewERC20Caller", "BalanceAt", "Dial", "done"}

\* C6 amended: a failed SendTransaction is not retried, its error is surfaced by a
\* panic, and the process ends there although keys or endpoints remain.
C6_SendFailureAborts ==
    \A i \in FailedCalls({"SendTransaction"}) :
        /\ sendCalls = 1
        /\ err = "SendTransaction"
        /\ pc = "panicked"
        /\ ep = io[i].arg.url
        /\ PubkeyToAddress(privateKeys[key]) = io[i].arg.tx.from
        /\ ~ENABLED Next

C6_Witness ==
    /\ FailedCalls({"SendTransaction"}) # {}
    /\ key < Len(privateKeys)
    /\ ep < Len(opts.RPCURLs)
    /\ sigState = "listening"

\* C7: every failed call that does not abort the process comes with a log line.
C7_EverySkipLogged ==
    \A i \in DOMAIN io :
        (io[i].kind = "call" /\ ~io[i].ok /\ pc # "panicked") => Logged

\* C8: the step that builds the transaction uses the fallback rate 110000 * 10000
\* when SuggestGasPrice returned zero and the returned rate otherwise, both as the
\* gas price of the transaction and in the fee subtracted from the balance; no
\* broadcast transaction has a zero gas price.
C8_FeeRateFallback ==
    /\ [][ (pc = "SignTx" /\ pc' \in {"SendTransaction", "panicked"}) =>
             LET rate == IF gasPrice = 0 THEN 110000 * 10000 ELSE gasPrice
             IN  /\ signedTx'.gasPrice = rate
                 /\ signedTx'.value = [q |-> bal.q - rate, r |-> bal.r]
                 /\ signedTx'.gasLimit = 21000 ]_vars
    /\ [](\A i \in Sends :
             /\ io[i].arg.tx.gasPrice # 0
             /\ io[i].arg.tx.value =
                   [q |-> io[i].arg.value.q - io[i].arg.tx.gasPrice,
                    r |-> io[i].arg.value.r])

C8_Witness ==
    \E i \in Sends : io[i].ok /\ io[i].arg.tx.gasPrice = 110000 * 10000

\* C9: within one (endpoint, key) iteration SendTransaction is called at most once,
\* and the iteration of main never returns to a pair it has left.
C9_AtMostOneSendPerPair ==
    /\ [](sendCalls <= 1)
    /\ [][ ep >= 1 =>
             \/ <<ep', key'>> = <<ep, key>> /\ sendCalls' >= sendCalls
             \/ ep' > ep
             \/ ep' = ep /\ key' > key
             \/ pc' = "done" ]_vars

C9_Witness ==
    /\ sendCalls = 1
    /\ FailedCalls({"SendTransaction"}) # {}
    /\ pc = "panicked"

\* C10: when some private key is malformed, main never gets past the key loop: no
\* endpoint is dialled, no external call is made and nothing is printed.
Malformed(text) ==
    \/ \E i \in DOMAIN text : text[i] = "+" \/ text[i] = "/"
    \/ ~DecodeString(Normalise(text)).ok
    \/ ~ToECDSA(DecodeString(Normalise(text)).bytes).ok

C10_MalformedKeyAbortsBeforeScan ==
    (\E k \in DOMAIN opts.PrivateKeys : Malformed(opts.PrivateKeys[k])) =>
        /\ pc \in {"Parse", "Contracts", "DecodeKey", "panicked", "exited"}
        /\ ep = 0
        /\ connected = 0
        /\ \A i \in DOMAIN io : io[i].kind = "log"

C10_Witness ==
    /\ pc = "panicked"
    /\ key > 1
    /\ Malformed(opts.PrivateKeys[key])
    /\ \A k \in 1..(key - 1) : ~Malformed(opts.PrivateKeys[k])


\* ----------------------------------------------------------- console output
Stdout == { i \in DOMAIN io : io[i].kind = "stdout" }

Headers == { i \in Stdout : io[i].op = "Printf" }

BalanceLines == { i \in Stdout : io[i].op = "printAccount" }

CallsOf(ops) == { i \in DOMAIN io : io[i].kind = "call" /\ io[i].op \in ops }

MetadataPcs == {"Decimals", "Name", "Symbol"}

\* C11: standard output carries exactly one balance line per non-zero balance read
\* (native or token); a token balance line directly follows the header line of its
\* contract; a zero or unreadable token balance prints nothing and main goes on to
\* the next contract or to the native balance of the same address.
C11_Lines ==
    /\ Stdout = Headers \cup BalanceLines
    /\ \A i \in Headers :
          /\ i = 2 /\ Len(io) = 3
          /\ io[1].kind = "call" /\ io[1].op = "Symbol"
          /\ io[2].arg.contract = io[1].arg
          /\ 3 \in BalanceLines
    /\ \A i \in BalanceLines :
          \/ /\ i = 2 /\ Len(io) = 2
             /\ io[1].kind = "call" /\ io[1].op = "BalanceAt" /\ io[1].ok
             /\ io[2].arg.from = io[1].arg
             /\ io[2].arg.balance = io[1].res
             /\ CmpZero(io[1].res) # 0
             /\ io[2].arg.unit = "ETH"
          \/ /\ i = 3 /\ 2 \in Headers
             /\ io[3].arg.balance # 0
    /\ \A i \in CallsOf({"BalanceAt"}) :
          Cardinality(BalanceLines) =
              IF io[i].ok /\ CmpZero(io[i].res) # 0 THEN 1 ELSE 0
    /\ \A i \in CallsOf({"Symbol"}) : Cardinality(BalanceLines) = 1
    /\ \A i \in CallsOf({"BalanceOf"}) :
          /\ Stdout = {}
          /\ IF io[i].ok /\ io[i].res # 0
                THEN pc = "Decimals" /\ tokenBal = io[i].res
                ELSE /\ pc \in {"NewERC20Caller", "BalanceAt"}
                     /\ PubkeyToAddress(privateKeys[key]) = io[i].arg.from
    /\ pc \in MetadataPcs => tokenBal # 0

C11_OneLinePerBalance ==
    /\ []C11_Lines
    /\ [][ /\ pc = "Decimals" => pc' \in {"Decimals", "Name", "panicked", "exited"}
           /\ pc = "Name" => pc' \in {"Name", "Symbol", "exited"}
           /\ pc \in {"Decimals", "Name"} /\ pc' \in MetadataPcs =>
                 tokenBal' = tokenBal /\ ct' = ct
           /\ pc = "Symbol" /\ pc' \notin {"Symbol", "exited"} =>
                 /\ Len(io') = 3
                 /\ io'[2].arg.contract = contractAddresses[ct]
                 /\ io'[3].arg.balance = tokenBal
                 /\ io'[3].arg.from = PubkeyToAddress(privateKeys[key]) ]_vars

C11_Witness ==
    /\ Len(contractAddresses) = 2
    /\ ct = 2
    /\ pc = "NewERC20Caller"
    /\ 2 \in Headers /\ 3 \in BalanceLines


\* ------------------------------------------------------------ traversal order
TokenPcs == {"NewERC20Caller", "BalanceOf", "Decimals", "Name", "Symbol"}

NativePcs == {"BalanceAt"} \cup SwipeToPcs

Ended == {"done", "panicked", "exited"}

\* main is at the last step of the iteration of its current key
KeyFinishing == key >= 1 /\ pc \in {"BalanceAt", "SendTransaction"}

\* C12: endpoints, keys and contracts are visited one at a time in the order they
\* were supplied; a later item is entered only from the last step of the item just
\* before it at the same level, and every call of a step addresses the current item.
C12_Items ==
    /\ \A i \in DOMAIN contractAddresses :
          contractAddresses[i] = HexToAddress(opts.ContractAddresses[i])
    /\ \A k \in DOMAIN privateKeys :
          privateKeys[k] =
              ToECDSA(DecodeString(Normalise(opts.PrivateKeys[k])).bytes).key
    /\ pc \in TokenPcs =>
          /\ ep \in DOMAIN opts.RPCURLs /\ key \in DOMAIN privateKeys
          /\ ct \in DOMAIN contractAddresses
    /\ pc \in NativePcs =>
          /\ ep \in DOMAIN opts.RPCURLs /\ key \in DOMAIN privateKeys /\ ct = 0
    /\ pc \in {"Dial", "NetworkID"} =>
          /\ ep \in DOMAIN opts.RPCURLs /\ key = 0 /\ ct = 0
          /\ privateKeys # <<>>
          /\ Len(privateKeys) = Len(opts.PrivateKeys)
          /\ Len(contractAddresses) = Len(opts.ContractAddresses)

C12_Move ==
    \/ <<ep', key', ct'>> = <<ep, key, ct>> /\ pc' \notin {"done"}
    \/ /\ pc \in TokenPcs /\ ct < Len(contractAddresses)
       /\ <<ep', key', ct'>> = <<ep, key, ct + 1>> /\ pc' = "NewERC20Caller"
    \/ /\ pc \in TokenPcs /\ ct = Len(contractAddresses)
       /\ <<ep', key', ct'>> = <<ep, key, 0>> /\ pc' = "BalanceAt"
    \/ /\ pc = "NetworkID" \/ KeyFinishing
       /\ key < Len(privateKeys)
       /\ <<ep', key'>> = <<ep, key + 1>>
       /\ IF contractAddresses # <<>>
             THEN pc' = "NewERC20Caller" /\ ct' = 1
             ELSE pc' = "BalanceAt" /\ ct' = 0
    \/ /\ pc = "Dial" \/ (KeyFinishing /\ key = Len(privateKeys))
       /\ ep < Len(opts.RPCURLs)
       /\ <<ep', key', ct'>> = <<ep + 1, 0, 0>> /\ pc' = "Dial"
    \/ /\ pc = "Dial" \/ (KeyFinishing /\ key = Len(privateKeys))
       /\ ep = Len(opts.RPCURLs)
       /\ <<ep', key', ct'>> = <<ep, 0, 0>> /\ pc' = "done"

C12_CallsCurrentItem ==
    \A i \in DOMAIN io' :
        io'[i].kind = "call" =>
            /\ io'[i].op \in {"Dial", "NetworkID", "SuggestGasPrice"} =>
                  io'[i].arg = opts.RPCURLs[ep]
            /\ io'[i].op \in {"NewERC20Caller", "Decimals", "Name", "Symbol"} =>
                  io'[i].arg = contractAddresses[ct]
            /\ io'[i].op = "BalanceOf" =>
                  /\ io'[i].arg.contract = contractAddresses[ct]
                  /\ io'[i].arg.from = PubkeyToAddress(privateKeys[key])
            /\ io'[i].op \in {"BalanceAt", "NonceAt"} =>
                  io'[i].arg = PubkeyToAddress(privateKeys[key])
            /\ io'[i].op = "SendTransaction" =>
                  /\ io'[i].arg.url = opts.RPCURLs[ep]
                  /\ io'[i].arg.tx.from = PubkeyToAddress(privateKeys[key])

C12_SequentialInputOrder ==
    /\ []C12_Items
    /\ [][ ep >= 1 => C12_Move /\ C12_CallsCurrentItem ]_vars

C12_Witness ==
    /\ pc = "done"
    /\ Len(opts.RPCURLs) = 2 /\ Len(privateKeys) = 2 /\ Len(contractAddresses) = 2
    /\ scanned = 4


\* -------------------------------------------------------- token introspection
\* C13: when the Decimals call of getERC20Info fails, the function returns nothing:
\* main panics at once, Name and Symbol are not called, no name, symbol or decimals
\* reaches main, and no header or balance line is printed for that contract.
C13_DecimalsFailureFailsWhole ==
    \A i \in FailedCalls({"Decimals"}) :
        /\ pc = "panicked" /\ err = "Decimals"
        /\ io[i].arg = contractAddresses[ct]
        /\ CallsOf({"Name", "Symbol"}) = {}
        /\ Stdout = {}
        /\ name = ""
        /\ ~ENABLED Next

C13_Witness ==
    /\ FailedCalls({"Decimals"}) # {}
    /\ pc = "panicked"
    /\ tokenBal # 0


\* C14: once Decimals succeeded, getERC20Info returns: the decimals printed are the
\* value Decimals returned; a failed Name gives "Non ERC20 strict" and a failed Symbol
\* gives "ERC20", each independently of the other; a call that succeeds gives the
\* value of the contract.
C14_Returned ==
    /\ \A i \in CallsOf({"Decimals"}) :
          io[i].ok => pc = "Name" /\ decimals = io[i].res
    /\ \A i \in CallsOf({"Name"}) :
          /\ pc = "Symbol"
          /\ name = IF io[i].ok THEN "Token" ELSE "Non ERC20 strict"
    /\ \A i \in CallsOf({"Symbol"}) :
          /\ pc # "panicked"
          /\ Len(io) = 3
          /\ io[2].arg.name \in {"Token", "Non ERC20 strict"}
          /\ io[3].arg.unit = IF io[i].ok THEN "TKN" ELSE "ERC20"

C14_SentinelsAndRealDecimals ==
    /\ []C14_Returned
    /\ [][ /\ pc \in {"Name", "Symbol"} => pc' # "panicked"
           /\ pc = "Name" /\ pc' = "Symbol" => decimals' = decimals
           /\ pc = "Symbol" /\ pc' \notin {"Symbol", "exited"} =>
                 /\ io'[2].arg.name = name
                 /\ io'[3].arg.dec = decimals ]_vars

C14_Witness ==
    /\ CallsOf({"Symbol"}) # {}
    /\ io[1].ok
    /\ io[2].arg.name = "Non ERC20 strict"
    /\ io[3].arg.unit = "TKN"
    /\ io[3].arg.dec = 18


\* ---------------------------------------------------------------- the signal
\* The listener goroutine is runnable from the moment the signal is in the channel
\* and is not blocked by main, so the Go scheduler runs both of its steps unless the
\* process ends first.  Nothing is assumed about main: its network calls have no
\* timeout.
FairSpec == Spec /\ WF_vars(Cancel) /\ WF_vars(Exit)

\* C15 as stated: whenever the process has ended after a signal was delivered, the
\* shared context was cancelled before the end.
C15_CancelledBeforeAnyEnd ==
    (pc \in Ended /\ sigState # "listening") => sigState = "cancelled"

\* C15, amended: after a signal the run always ends; the listener cancels the shared
\* context before it exits the process, so an end through the listener comes after
\* the cancellation, while main may end the process first without any cancellation.
C15_SignalEndsRun ==
    /\ (sigState # "listening") ~> (pc \in Ended)
    /\ [](pc = "exited" => sigState = "cancelled")
    /\ [][ /\ pc' = "exited" /\ pc # "exited" => sigState = "cancelled"
           /\ sigState = "received" /\ sigState' # "received" =>
                 sigState' = "cancelled" /\ pc' = pc ]_vars

C15_Witness ==
    /\ pc = "exited"
    /\ sigState = "cancelled"
    /\ ep = 2 /\ key = 1


\* ------------------------------------------------------------ sweep transfers
\* the transaction a SignTx or SendTransaction call event carries
TxOf(e) == IF e.op = "SignTx" THEN e.arg ELSE e.arg.tx

\* C16: no token transfer is built or sent: every transaction signed or broadcast is
\* a plain transfer of native currency to the sweep destination, with gas limit 21000
\* and empty call data, and the steps that handle a token contract make read-only
\* calls and never enter SwipeTo.
C16_PlainTransfer ==
    /\ \A i \in DOMAIN io :
          io[i].kind = "call" =>
              io[i].op \in {"Dial", "NetworkID", "NewERC20Caller", "BalanceOf",
                            "Decimals", "Name", "Symbol", "BalanceAt", "NonceAt",
                            "SuggestGasPrice", "SignTx", "SendTransaction"}
    /\ \A i \in CallsOf({"SignTx", "SendTransaction"}) :
          /\ TxOf(io[i]).to = swipeTo
          /\ TxOf(io[i]).to = HexToAddress(opts.SwipeAddress)
          /\ TxOf(io[i]).gasLimit = 21000
          /\ TxOf(io[i]).data = <<>>

C16_TokenStepReadsOnly ==
    pc \in TokenPcs =>
        /\ pc' \notin SwipeToPcs
        /\ \A i \in DOMAIN io' :
              io'[i].kind = "call" =>
                  io'[i].op \in {"NewERC20Caller", "BalanceOf", "Decimals",
                                 "Name", "Symbol"}

C16_NoTokenTransfer ==
    /\ []C16_PlainTransfer
    /\ [][C16_TokenStepReadsOnly]_vars

C16_Witness ==
    /\ \E i \in Sends : io[i].ok /\ io[i].arg.tx.data = <<>>
    /\ contractAddresses # <<>>
    /\ pc \in TokenPcs


\* ------------------------------------------------ printAccount: the formatting
\* Amounts are sequences of decimal digits (balance.String()), most significant
\* first.  A decimal is [mant, exp] with value 0.mant * 10^exp, mant without leading
\* or trailing zeros and <<>> for zero, as in the decimal conversion behind
\* big.Float.Text.
MaxDigits == 19

\* big.Float.String() is Text('g', 10): ten significant digits
TextPrec == 10

DecimalsInputs == {0, 6, 18}

Zeros(n) == [i \in 1..n |-> 0]

Nines(n) == [i \in 1..n |-> 9]

Largest(S) == CHOOSE i \in S : \A j \in S : j <= i

Smallest(S) == CHOOSE i \in S : \A j \in S : i <= j

TrimTrailingZeros(d) ==
    LET nz == { i \in DOMAIN d : d[i] # 0 }
    IN  IF nz = {} THEN <<>> ELSE SubSeq(d, 1, Largest(nz))

LeadingZeros(d) ==
    LET nz == { i \in DOMAIN d : d[i] # 0 }
    IN  IF nz = {} THEN Len(d) ELSE Smallest(nz) - 1

Decimal(m, e) == [mant |-> m, exp |-> IF m = <<>> THEN 0 ELSE e]

\* the integer with digits d
IntegerDecimal(d) == Decimal(TrimTrailingZeros(d), Len(d))

\* line 44: Quo(fbal, 10^dec).  The quotient is taken exactly; its rounding to a
\* 64-bit mantissa is far below the tenth significant digit.
Quo(d, dec) == Decimal(TrimTrailingZeros(d), Len(d) - dec)

\* rounding of a decimal to n significant digits, to nearest and ties to even
ShouldRoundUp(x, n) ==
    IF x.mant[n + 1] = 5 /\ n + 1 = Len(x.mant)
        THEN n > 0 /\ x.mant[n] % 2 # 0
        ELSE x.mant[n + 1] >= 5

RoundUp(x, n) ==
    LET lt9 == { i \in 1..n : x.mant[i] < 9 }
    IN  IF lt9 = {} THEN Decimal(<<1>>, x.exp + 1)
        ELSE LET i == Largest(lt9)
             IN  Decimal(SubSeq(x.mant, 1, i - 1) \o <<x.mant[i] + 1>>, x.exp)

RoundDown(x, n) == Decimal(TrimTrailingZeros(SubSeq(x.mant, 1, n)), x.exp)

Round(x, n) ==
    IF n >= Len(x.mant) THEN x
    ELSE IF ShouldRoundUp(x, n) THEN RoundUp(x, n) ELSE RoundDown(x, n)

\* text
Chars == <<"0", "1", "2", "3", "4", "5", "6", "7", "8", "9">>

DigitChar(d) == Chars[d + 1]

DigitVal(c) == CHOOSE d \in 0..9 : Chars[d + 1] = c

DigitText(d) == [i \in DOMAIN d |-> DigitChar(d[i])]

\* the exponent of the %e form: a sign and at least two digits
ExpText(e) ==
    LET a == IF e < 0 THEN 0 - e ELSE e
        tens == IF a < 100 THEN <<a \div 10, a % 10>>
                ELSE <<a \div 100, (a \div 10) % 10, a % 10>>
    IN  <<IF e < 0 THEN "-" ELSE "+">> \o DigitText(tens)

\* %e with prec digits after the point
FmtE(x, prec) ==
    <<IF x.mant = <<>> THEN "0" ELSE DigitChar(x.mant[1])>>
    \o (IF prec > 0
            THEN <<".">> \o [i \in 1..prec |->
                               IF i + 1 <= Len(x.mant) THEN DigitChar(x.mant[i + 1])
                               ELSE "0"]
            ELSE <<>>)
    \o <<"e">>
    \o ExpText(IF x.mant = <<>> THEN 0 ELSE x.exp - 1)

\* %f with prec digits after the point
FmtF(x, prec) ==
    (IF x.exp > 0
         THEN [i \in 1..x.exp |->
                  IF i <= Len(x.mant) THEN DigitChar(x.mant[i]) ELSE "0"]
         ELSE <<"0">>)
    \o (IF prec > 0
            THEN <<".">> \o [i \in 1..prec |->
                               IF x.exp + i >= 1 /\ x.exp + i <= Len(x.mant)
                                   THEN DigitChar(x.mant[x.exp + i])
                                   ELSE "0"]
            ELSE <<>>)

\* Text('g', prec): round to prec digits, then %e for exponents below -4 or not
\* below the precision, %f otherwise, both without trailing zeros
TextG(v, prec) ==
    LET x == Round(v, prec)
        nd == Len(x.mant)
        eprec == IF prec > nd /\ nd >= x.exp THEN nd ELSE prec
        e == x.exp - 1
    IN  IF e < -4 \/ e >= eprec
            THEN FmtE(x, (IF prec > nd THEN nd ELSE prec) - 1)
            ELSE LET p == IF prec > x.exp THEN nd ELSE prec
                 IN  FmtF(x, IF p - x.exp > 0 THEN p - x.exp ELSE 0)

\* lines 38-46: the amount text printAccount prints for balance (digits) and dec
FormatBalance(balance, dec) == TextG(Quo(balance, dec), TextPrec)


\* -------------------------------------------- reading the printed amount back
IndexOf(t, c) ==
    LET at == { i \in DOMAIN t : t[i] = c }
    IN  IF at = {} THEN 0 ELSE Smallest(at)

RECURSIVE NatOf(_)
NatOf(t) ==
    IF t = <<>> THEN 0
    ELSE 10 * NatOf(SubSeq(t, 1, Len(t) - 1)) + DigitVal(t[Len(t)])

DigitsOf(t) == [i \in DOMAIN t |-> DigitVal(t[i])]

\* the exact decimal a text of the form ddd[.ddd][e(+|-)dd] denotes
ParseDecimal(t) ==
    LET ePos == IndexOf(t, "e")
        m == IF ePos = 0 THEN t ELSE SubSeq(t, 1, ePos - 1)
        e == IF ePos = 0 THEN 0
             ELSE LET n == NatOf(SubSeq(t, ePos + 2, Len(t)))
                  IN  IF t[ePos + 1] = "-" THEN 0 - n ELSE n
        dot == IndexOf(m, ".")
        int == IF dot = 0 THEN m ELSE SubSeq(m, 1, dot - 1)
        frac == IF dot = 0 THEN <<>> ELSE SubSeq(m, dot + 1, Len(m))
        all == DigitsOf(int \o frac)
        lead == LeadingZeros(all)
    IN  Decimal(TrimTrailingZeros(SubSeq(all, lead + 1, Len(all))),
                Len(int) + e - lead)

\* x * 10^dec
Scale(x, dec) == Decimal(x.mant, x.exp + dec)

\* The amounts printAccount is applied to: zero, 9...9, and a0...0b0...0.
FormatBalances ==
    { <<0>> }
    \cup { Nines(n) : n \in 1..MaxDigits }
    \cup { b \in { <<a>> \o Zeros(k) \o <<c>> \o Zeros(m) :
                      a \in {1, 9}, c \in {0, 1, 9},
                      k \in 0..(MaxDigits - 2), m \in 0..(MaxDigits - 2) } :
             Len(b) <= MaxDigits }

FormatInit ==
    /\ opts = [RPCURLs |-> <<>>, ContractAddresses |-> <<>>, PrivateKeys |-> <<>>,
               SwipeAddress |-> <<>>]
    /\ contractAddresses = <<>>
    /\ privateKeys = <<>>
    /\ swipeTo = ZeroAddress
    /\ pc = "printAccount" /\ ep = 0 /\ key = 0 /\ ct = 0
    /\ err = "nil"
    /\ networkId = 0
    /\ tokenBal = 0 /\ decimals = 0 /\ name = ""
    /\ bal = ZeroWei
    /\ nonce = 0 /\ gasPrice = 0 /\ signedTx = NoTx
    /\ sigState = "listening"
    /\ \E b \in FormatBalances : \E d \in DecimalsInputs :
          io = <<Out("printAccount",
                     [from |-> PubkeyToAddress(1), unit |-> NativeInfo.symbol,
                      dec |-> d, balance |-> b])>>
    /\ connected = 0 /\ scanned = 0 /\ sendCalls = 0

\* func printAccount (lines 38-47) applied to the arguments in io[1]
printAccount ==
    /\ pc = "printAccount"
    /\ pc' = "printed"
    /\ io' = Append(io, Out("Printf",
                            [from |-> io[1].arg.from,
                             value |-> FormatBalance(io[1].arg.balance,
                                                     io[1].arg.dec),
                             unit |-> io[1].arg.unit]))
    /\ UNCHANGED <<config, parsed, ep, key, ct, err, networkId, tokenLocals, bal,
                   swipeLocals, sigState, connected, scanned, sendCalls>>

FormatNext == printAccount

FormatSpec == FormatInit /\ [][FormatNext]_vars

\* C17: the amount text printed, read back as an exact decimal and multiplied by
\* 10^dec, is the balance that was passed in.
C17_RoundTripExact ==
    pc = "printed" =>
        Scale(ParseDecimal(io[2].arg.value), io[1].arg.dec)
            = IntegerDecimal(io[1].arg.balance)


\* --------------------------------------------------- phases of one address
\* C18: for one address on one endpoint the token contracts are queried and reported
\* first, one after the other from the first to the last; the native balance is
\* queried only after the last contract is done; SwipeTo is entered only from the
\* step that printed the native balance line, and prints nothing itself.
C18_Phases ==
    /\ pc' \in TokenPcs /\ <<ep', key'>> # <<ep, key>> => ct' = 1
    /\ pc \in TokenPcs /\ pc' \in TokenPcs => ct' \in {ct, ct + 1}
    /\ pc' = "BalanceAt" /\ pc # "BalanceAt" =>
          \/ pc \in TokenPcs /\ ct = Len(contractAddresses)
                /\ <<ep', key'>> = <<ep, key>>
          \/ contractAddresses = <<>>
    /\ pc \in NativePcs /\ pc' \in TokenPcs => <<ep', key'>> # <<ep, key>>
    /\ pc' \in SwipeToPcs /\ pc \notin SwipeToPcs =>
          /\ pc = "BalanceAt" /\ pc' = "NonceAt"
          /\ Len(io') = 2
          /\ io'[1].kind = "call" /\ io'[1].op = "BalanceAt" /\ io'[1].ok
          /\ io'[2].kind = "stdout" /\ io'[2].op = "printAccount"
          /\ io'[2].arg.from = PubkeyToAddress(privateKeys[key])
          /\ io'[2].arg.balance = bal'
    /\ pc \in SwipeToPcs =>
          \A i \in DOMAIN io' : io'[i].kind # "stdout"
    /\ pc \notin SwipeToPcs =>
          \A i \in DOMAIN io' :
              io'[i].kind = "call" =>
                  io'[i].op \notin {"NonceAt", "SuggestGasPrice", "SignTx",
                                    "SendTransaction"}

C18_QueryReportSweep == [][C18_Phases]_vars

C18_Witness ==
    /\ pc = "NonceAt"
    /\ Len(contractAddresses) = 2
    /\ BalanceLines = {2}
    /\ key = 2


\* ------------------------------------------------- provenance of a transfer
Url == opts.RPCURLs[ep]

Sender == PubkeyToAddress(privateKeys[key])

\* the single call event of a step that has just been taken
Answered(op) ==
    /\ io' # <<>>
    /\ io'[1].kind = "call" /\ io'[1].op = op /\ io'[1].ok
    /\ io'[1].url = Url

\* C19: a transfer is built only from what the endpoint it is sent to has answered:
\* the chain id of the signature is the network id of that endpoint, the nonce and
\* the fee rate were returned by that endpoint for the sending address during the
\* same iteration, and the amount is computed from the balance that endpoint
\* returned for that address.
C19_Steps ==
    /\ pc = "BalanceAt" /\ pc' = "NonceAt" =>
          Answered("BalanceAt") /\ io'[1].arg = Sender /\ bal' = io'[1].res
    /\ pc = "NonceAt" /\ pc' = "SuggestGasPrice" =>
          Answered("NonceAt") /\ io'[1].arg = Sender /\ nonce' = io'[1].res
    /\ pc = "SuggestGasPrice" /\ pc' = "SignTx" =>
          Answered("SuggestGasPrice") /\ gasPrice' = io'[1].res
    /\ pc \in SwipeToPcs /\ pc' \in SwipeToPcs =>
          /\ <<ep', key'>> = <<ep, key>> /\ bal' = bal
          /\ pc # "NonceAt" => nonce' = nonce
    /\ pc = "SignTx" /\ pc' \in {"SendTransaction", "panicked"} =>
          /\ io'[1].arg.nonce = nonce
          /\ io'[1].arg.from = Sender
          /\ io'[1].arg.chainId = NetworkIdOf(Url)
          /\ io'[1].arg.gasPrice =
                 (IF gasPrice = 0 THEN 110000 * 10000 ELSE gasPrice)
          /\ io'[1].arg.value = Sub(bal, MulGasLimit(io'[1].arg.gasPrice))
          /\ pc' = "SendTransaction" => signedTx' = io'[1].arg
    /\ pc = "SendTransaction" /\ pc' \notin {"SendTransaction", "exited"} =>
          /\ io'[1].op = "SendTransaction"
          /\ io'[1].arg.url = Url
          /\ io'[1].arg.tx = signedTx

C19_BoundToEndpoint ==
    /\ [](pc \in TokenPcs \cup NativePcs => networkId = NetworkIdOf(Url))
    /\ [](\A i \in Sends : io[i].arg.tx.chainId = NetworkIdOf(io[i].arg.url))
    /\ [][C19_Steps]_vars

C19_Witness ==
    /\ \E i \in Sends :
          io[i].ok /\ io[i].arg.url = 2 /\ io[i].arg.tx.chainId = NetworkIdOf(2)
    /\ connected = 2


\* ------------------------------------------------------- lazy introspection
\* C20: Decimals, Name and Symbol are called for a contract only after BalanceOf of
\* that contract, for the current address on the current endpoint, succeeded with a
\* non-zero balance; after a failed or zero BalanceOf main goes on to the next
\* contract or to the native balance without any metadata call and without a panic.
C20_Steps ==
    /\ pc' = "Decimals" /\ pc # "Decimals" =>
          /\ pc = "BalanceOf"
          /\ <<ep', key', ct'>> = <<ep, key, ct>>
          /\ Answered("BalanceOf")
          /\ io'[1].arg.contract = contractAddresses[ct]
          /\ io'[1].arg.from = Sender
          /\ io'[1].res # 0
          /\ tokenBal' = io'[1].res
    /\ \A i \in DOMAIN io' :
          io'[i].kind = "call" /\ io'[i].op \in {"Decimals", "Name", "Symbol"} =>
              /\ pc = io'[i].op
              /\ tokenBal # 0
              /\ io'[i].arg = contractAddresses[ct]
    /\ pc = "BalanceOf" /\ pc' \notin {"BalanceOf", "Decimals", "exited"} =>
          /\ ~io'[1].ok \/ io'[1].res = 0
          /\ pc' \in {"NewERC20Caller", "BalanceAt"}
          /\ <<ep', key'>> = <<ep, key>>

C20_MetadataOnlyForHeldTokens ==
    /\ [](pc \in MetadataPcs => tokenBal # 0)
    /\ [][C20_Steps]_vars

C20_Witness ==
    /\ \E i \in CallsOf({"BalanceOf"}) : io[i].ok /\ io[i].res = 0
    /\ pc = "NewERC20Caller"
    /\ ct = 2

====
